---------------------------- MODULE Spec2Model ----------------------------
(***************************************************************************)
(* dfmodules: the asynchronous direct-I/O engine (AsyncIO), the sequential *)
(* block writer built on it (SNBHandler) and the decision/fragment         *)
(* correlator (FragmentReceiver::do_work).                                 *)
(*                                                                         *)
(* The specifications share    the variables below:                         *)
(*   SpecAIO    the engine driven by an arbitrary client                   *)
(*   SpecBP     the engine under the backpressure scenario, with fairness  *)
(*   SpecSNB    SNBHandler::store driving the engine                       *)
(*   SpecSNBLive  the same, with the thread and the kernel scheduled       *)
(*   SpecWriter the writer thread (SNBWriter::do_work) driving store      *)
(*   SpecCorr   the correlator's work loop                                 *)
(*   SpecCorrAdvancing  the same, fed with advancing timestamps, fair      *)
(*   SpecPure   the pure functions applied to drawn arguments              *)
(***************************************************************************)
EXTENDS Integers, Sequences, FiniteSets, TLC

(***************************************************************************)
(* Bounds of the model.                                                    *)
(***************************************************************************)
\* operations a client submits in one behaviour
MaxOps == 3
\* largest max_concurrent_ops a client passes to the AsyncIO constructor
MaxCap == 3
\* store calls in one behaviour
MaxStores == 4
\* trigger decisions popped in one behaviour
MaxDecisions == 3
\* fragments popped in one behaviour
MaxFragments == 2
\* turns of the correlator's work loop in one behaviour
MaxCycles == 2
\* largest trigger timestamp a decision carries
MaxTime == 1
\* TriggerRecords the writer thread pops in one behaviour
MaxRecords == 2
\* largest number of fragments a popped TriggerRecord holds
MaxRecordFragments == 2
\* largest run_number and trigger_number of the TriggerIds that are compared
MaxIdField == 2
\* largest io_size, in pages, whose capacity units are computed
MaxPages == 64

(***************************************************************************)
(* Program constants.                                                      *)
(***************************************************************************)
\* #define PAGE_SIZE 4096LL
PAGE_SIZE == 4096
\* #define MIN_OFFSET 4096LL
MIN_OFFSET == 4096
\* m_asyncio = std::make_unique<AsyncIO>(128)
SNB_MAX_CONCURRENT_OPS == 128
\* auto preferred_block_size = 16384*5
preferred_block_size == 16384 * 5
\* errno value libaio reports (negated) for invalid arguments
EINVAL == 22

VARIABLES
  \* ---- AsyncIO ----
  max_concurrent_ops,  \* AsyncIO::_max_concurrent_ops
  inflight_ops,        \* AsyncIO::_inflight_ops
  cbdata,              \* live callback_data records: op id -> [io_size, ctx]
  kernel,              \* op ids the kernel accepted and has not completed yet
  accepted,            \* op ids io_submit returned 1 for
  cq,                  \* the context's completion ring: sequence of [id, res]
  fired,               \* op id -> number of times its callback was invoked
  nops,                \* submissions begun so far (the next op id)
  pc,                  \* position of the thread that owns the engine
  cur,                 \* arguments of the _submit_operation call in progress
  thrown,              \* exception raised by the last engine call ("none" if it returned)
  lastBatch,           \* events io_getevents handed to the last retrieveCompletions,
                       \* each with the io_size of its callback_data
  lastSubmit,          \* the last io_submit call made: [n, offset, io_size, ret], n calls so far
  \* ---- SNBHandler ----
  m_block_size,        \* SNBHandler::m_block_size
  m_sent_ops,          \* SNBHandler::m_sent_ops
  m_completed_ops,     \* SNBHandler::m_completed_ops
  file_offset,         \* SNBHandler::file_offset
  payload,             \* bytes the caller copied into the buffer for the store in progress
  storeCalls,          \* store calls begun
  storeLog,            \* offsets written by the store calls that returned normally
  \* ---- FragmentReceiver ----
  trigger_decisions,   \* trigger_decisions_: TriggerId -> [ts, ncomp]
  fragments,           \* fragments_: TriggerId -> sequence of [fid, freed]; fid = <<id, k>>
                       \* names the k-th fragment ingested for id
  current_time,        \* do_work's current_time
  max_time_difference, \* max_time_difference_
  cpc,                 \* position of the work loop
  cycles,              \* turns of the work loop completed
  ndecs,               \* decisions popped so far
  nfrags,              \* fragments popped so far
  nIngested,           \* TriggerId -> fragments ingested for it so far
  emittedNow,          \* records pushed by the completion check of the turn in progress:
                       \* [id, delivered, fragments]
  evictedNow,          \* TriggerIds the last staleness pass warned about and erased
  discardedNow,        \* fragments the last staleness pass reported and deleted
  evicted,             \* TriggerIds evicted and not ingested again since
  passUB,              \* undefined behaviour the last staleness pass ran into
  \* ---- SNBWriter ----
  wpc,                 \* position of SNBWriter::do_work
  nrecs,               \* TriggerRecords popped so far
  recK,                \* fragments of the record being written
  recLeft,             \* fragments of it not yet handed to store
  storesAtPop,         \* storeCalls when the record was popped
  sentAtPop,           \* m_sent_ops when the record was popped
  membuffer,           \* the payload m_membuffer holds: <<record, fragment>>
  \* ---- pure functions ----
  ordIds,              \* the TriggerIds <<a, b, c>> last compared
  ordCmp,              \* what operator< returned for them: [aa, ab, ba, bc, ac]
  opSize,              \* the io_size last handed to _getOperations
  opUnits              \* what _getOperations returned for it

aioVars == <<max_concurrent_ops, inflight_ops, cbdata, kernel, accepted, cq, fired, nops,
             pc, cur, thrown, lastBatch, lastSubmit>>
snbVars == <<m_block_size, m_sent_ops, m_completed_ops, file_offset, payload,
             storeCalls, storeLog>>
corrVars == <<trigger_decisions, fragments, current_time, max_time_difference, cpc,
              cycles, ndecs, nfrags, nIngested, emittedNow,
              evictedNow, discardedNow, evicted, passUB>>
pureVars == <<ordIds, ordCmp, opSize, opUnits>>
writerVars == <<wpc, nrecs, recK, recLeft, storesAtPop, sentAtPop, membuffer>>
vars == <<aioVars, snbVars, corrVars, pureVars, writerVars>>

OpIds == 0 .. (MaxOps + MaxCap + MaxStores)
NoOp == [id |-> 0, kind |-> "none", io_size |-> 0, offset |-> 0, ctx |-> "none"]

\* sizes and offsets a client passes to write/read: one capacity unit aligned,
\* one unit misaligned, two units
ClientSizes == {PAGE_SIZE, PAGE_SIZE + 1, 2 * preferred_block_size}
ClientOffsets == {0, 1}

(***************************************************************************)
(* TriggerId and the correlator's bookkeeping                              *)
(***************************************************************************)

\* struct TriggerId { trigger_number; run_number; }
TriggerIds == {[run |-> 1, trig |-> 1], [run |-> 1, trig |-> 2], [run |-> 2, trig |-> 1]}

\* an order that looks at the trigger number only
TriggerIdLessByTrigger(a, b) ==
  a.trig < b.trig

\* bool TriggerId::operator<(const TriggerId& other)
TriggerIdLess(a, b) ==
  IF a.run = b.run THEN a.trig < b.trig ELSE a.run < b.run

\* the keys of a std::map<TriggerId, ..> in the order its iterators visit them
RECURSIVE SortedKeys(_)
SortedKeys(S) ==
  IF S = {} THEN << >>
  ELSE LET first == CHOOSE x \in S : \A y \in S \ {x} : TriggerIdLess(x, y)
       IN <<first>> \o SortedKeys(S \ {first})

\* a state of the module with nothing received yet
EmptyCorrelator(threshold) ==
  /\ trigger_decisions = << >>
  /\ fragments = << >>
  /\ current_time = 0
  /\ max_time_difference = threshold
  /\ cpc = "decisions"
  /\ cycles = 0
  /\ ndecs = 0
  /\ nfrags = 0
  /\ nIngested = [id \in TriggerIds |-> 0]
  /\ emittedNow = << >>
  /\ evictedNow = << >>
  /\ discardedNow = << >>
  /\ evicted = {}
  /\ passUB = "none"

\* SNBWriter::do_work at the top of its loop, nothing popped yet
NoWriter ==
  /\ wpc = "pop"
  /\ nrecs = 0
  /\ recK = 0
  /\ recLeft = 0
  /\ storesAtPop = 0
  /\ sentAtPop = 0
  /\ membuffer = << >>

\* no pure function applied yet
NoPure ==
  /\ ordIds = << >>
  /\ ordCmp = << >>
  /\ opSize = 0
  /\ opUnits = 0

NoCorrelator == EmptyCorrelator(0) /\ NoPure /\ NoWriter

(***************************************************************************)
(* AsyncIO                                                                 *)
(***************************************************************************)

\* int AsyncIO::_getOperations(size_t io_size)
GetOperations(io_size) ==
  IF io_size <= preferred_block_size THEN 1 ELSE io_size \div preferred_block_size

\* the condition of the blocking loop of _submit_operation, without the size of
\* the new operation
SubmitMustWaitIgnoringSize(inflight, io_size, max) ==
  inflight >= max

\* while (_inflight_ops + _getOperations(io_size) >= _max_concurrent_ops)
SubmitMustWait(inflight, io_size, max) ==
  inflight + GetOperations(io_size) >= max

\* a completion that never counts as failed
EventFailedNever(res, io_size) ==
  FALSE

\* if (event.res != data->io_size)
EventFailed(res, io_size) ==
  res # io_size

\* The loop of retrieveCompletions over the events io_getevents returned.
\* st = [inflight, fired, cbdata, ncb, thrown]; ncb counts the SNBHandler::store
\* callbacks run (each does m_completed_ops++). A failed event throws
\* (THROW_ERROR) before its callback, and the rest of the batch is not looked at.
RECURSIVE ProcessEvents(_, _)
ProcessEvents(evs, st) ==
  IF evs = <<>> THEN st
  ELSE LET ev == Head(evs)
           data == st.cbdata[ev.id]
       IN IF EventFailed(ev.res, data.io_size)
          THEN [st EXCEPT !.thrown = "retrieve"]
          ELSE ProcessEvents(Tail(evs),
                 [st EXCEPT !.fired[ev.id] = @ + 1,
                            !.ncb = @ + (IF data.ctx = "store" THEN 1 ELSE 0),
                            !.inflight = @ - GetOperations(data.io_size),
                            !.cbdata = [i \in (DOMAIN st.cbdata) \ {ev.id} |-> st.cbdata[i]]])

Min(a, b) == IF a <= b THEN a ELSE b

\* io_getevents(_ctx, 0, _max_concurrent_ops, _completed_events, &timeout) with a
\* zero timeout: what has completed, up to _max_concurrent_ops events
GetEvents == SubSeq(cq, 1, Min(Len(cq), max_concurrent_ops))

\* void AsyncIO::retrieveCompletions(): the state after the call
Retrieved ==
  ProcessEvents(GetEvents,
                [inflight |-> inflight_ops, fired |-> fired, cbdata |-> cbdata,
                 ncb |-> 0, thrown |-> "none"])

\* retrieveCompletions as the assignment it makes to the engine's variables;
\* the SNBHandler callback counts in m_completed_ops
RetrieveCompletions ==
  /\ inflight_ops' = Retrieved.inflight
  /\ fired' = Retrieved.fired
  /\ cbdata' = Retrieved.cbdata
  /\ thrown' = Retrieved.thrown
  /\ lastBatch' = [i \in 1 .. Len(GetEvents) |->
                     [id |-> GetEvents[i].id, res |-> GetEvents[i].res,
                      io_size |-> cbdata[GetEvents[i].id].io_size]]
  /\ cq' = SubSeq(cq, Len(GetEvents) + 1, Len(cq))
  /\ m_completed_ops' = m_completed_ops + Retrieved.ncb

\* AsyncIO::write / AsyncIO::read: enter _submit_operation
SubmitBegin(kind, io_size, offset, ctx) ==
  /\ pc = "idle"
  /\ cur' = [id |-> nops, kind |-> kind, io_size |-> io_size, offset |-> offset,
             ctx |-> ctx]
  /\ nops' = nops + 1
  /\ pc' = "submit"
  /\ thrown' = "none"
  /\ lastBatch' = << >>
  /\ UNCHANGED <<max_concurrent_ops, inflight_ops, cbdata, kernel, accepted, cq,
                 fired, lastSubmit>>
  /\ UNCHANGED <<corrVars, pureVars>>

\* _submit_operation, one turn of its blocking loop: there is no room for the
\* operation, so retrieveCompletions() runs; its exception leaves write/read
SubmitLoopRetrieve ==
  /\ pc = "submit"
  /\ SubmitMustWait(inflight_ops, cur.io_size, max_concurrent_ops)
  /\ RetrieveCompletions
  /\ pc' = IF Retrieved.thrown = "none" THEN "submit"
           ELSE "idle"
  /\ cur' = IF Retrieved.thrown = "none" THEN cur ELSE NoOp
  /\ UNCHANGED <<max_concurrent_ops, kernel, accepted, nops, lastSubmit>>
  /\ UNCHANGED <<m_block_size, m_sent_ops, file_offset, payload, storeCalls, storeLog>>
  /\ UNCHANGED <<corrVars, pureVars, writerVars>>

\* an io_submit whose return value is not looked at
SubmitAcceptedAlways(ret) ==
  TRUE

\* if (int ret; (ret = io_submit(_ctx, 1, &iocbs)) != 1) _io_submit_error(ret);
\* every path of _io_submit_error throws
SubmitAccepted(ret) ==
  ret = 1

\* _submit_operation past its loop: the callback_data is allocated, io_submit is
\* called; with ret = 1 the kernel has queued the operation and its capacity
\* units are added, any other ret throws from _io_submit_error and leaves the
\* callback_data behind.
\* In SNBHandler::store the next statement, m_sent_ops++, runs on return.
IoSubmit(ret) ==
  /\ pc = "submit"
  /\ ~SubmitMustWait(inflight_ops, cur.io_size, max_concurrent_ops)
  /\ cbdata' = [i \in (DOMAIN cbdata) \cup {cur.id} |->
                  IF i = cur.id
                  THEN [io_size |-> cur.io_size, ctx |-> cur.ctx]
                  ELSE cbdata[i]]
  /\ lastSubmit' = [n |-> lastSubmit.n + 1, offset |-> cur.offset,
                     io_size |-> cur.io_size, ret |-> ret]
  /\ kernel' = IF ret = 1 THEN kernel \cup {cur.id} ELSE kernel
  /\ accepted' = IF ret = 1 THEN accepted \cup {cur.id} ELSE accepted
  /\ IF SubmitAccepted(ret)
     THEN /\ inflight_ops' = inflight_ops + GetOperations(cur.io_size)
          /\ thrown' = "none"
          /\ pc' = IF cur.ctx = "store" THEN "drain" ELSE "idle"
          /\ m_sent_ops' = IF cur.ctx = "store" THEN m_sent_ops + 1 ELSE m_sent_ops
     ELSE /\ thrown' = "submit"
          /\ pc' = "idle"
          /\ UNCHANGED <<inflight_ops, m_sent_ops>>
  /\ cur' = IF cur.ctx = "store" /\ SubmitAccepted(ret) THEN cur ELSE NoOp
  /\ UNCHANGED <<max_concurrent_ops, cq, fired, nops, lastBatch>>
  /\ UNCHANGED <<m_block_size, m_completed_ops, file_offset, payload, storeCalls, storeLog>>
  /\ UNCHANGED <<corrVars, pureVars, writerVars>>

\* results the kernel may report for an operation of io_size bytes: all of it,
\* part of it, or an error (libaio reports -errno)
KernelResults(io_size) == {io_size, io_size \div 2, -EINVAL}

\* the kernel finishes an operation it holds and posts its event
KernelComplete(id, res) ==
  /\ id \in kernel
  /\ kernel' = kernel \ {id}
  /\ cq' = Append(cq, [id |-> id, res |-> res])
  /\ UNCHANGED <<max_concurrent_ops, inflight_ops, cbdata, accepted, fired, nops, pc, cur,
                 thrown, lastBatch, lastSubmit>>
  /\ UNCHANGED snbVars
  /\ UNCHANGED <<corrVars, pureVars, writerVars>>

(***************************************************************************)
(* A client of the engine: write, read and retrieveCompletions in any      *)
(* order, catching what they throw.                                        *)
(***************************************************************************)
Write(io_size, offset) ==
  /\ nops < MaxOps
  /\ SubmitBegin("write", io_size, offset, "client")
  /\ UNCHANGED <<snbVars, writerVars>>

Read(io_size, offset) ==
  /\ nops < MaxOps
  /\ SubmitBegin("read", io_size, offset, "client")
  /\ UNCHANGED <<snbVars, writerVars>>

Poll ==
  /\ pc = "idle"
  /\ RetrieveCompletions
  /\ UNCHANGED <<max_concurrent_ops, kernel, accepted, nops, pc, cur, lastSubmit>>
  /\ UNCHANGED <<m_block_size, m_sent_ops, file_offset, payload, storeCalls, storeLog>>
  /\ UNCHANGED <<corrVars, pureVars, writerVars>>

\* AsyncIO::AsyncIO(maxConcurrentOps): io_setup(0, ..) fails, so a constructed
\* engine has at least one slot
InitEngine(max) ==
  /\ max_concurrent_ops = max
  /\ inflight_ops = 0
  /\ cbdata = << >>
  /\ kernel = {}
  /\ accepted = {}
  /\ cq = << >>
  /\ fired = [i \in OpIds |-> 0]
  /\ nops = 0
  /\ pc = "idle"
  /\ cur = NoOp
  /\ thrown = "none"
  /\ lastBatch = << >>
  /\ lastSubmit = [n |-> 0, offset |-> 0, io_size |-> 0, ret |-> 0]

NoHandler ==
  /\ m_block_size = 0
  /\ m_sent_ops = 0
  /\ m_completed_ops = 0
  /\ file_offset = 0
  /\ payload = 0
  /\ storeCalls = 0
  /\ storeLog = << >>

InitAIO ==
  /\ \E max \in 1 .. MaxCap : InitEngine(max)
  /\ NoHandler
  /\ NoCorrelator

NextAIO ==
  \/ \E s \in ClientSizes, o \in ClientOffsets : Write(s, o)
  \/ \E s \in ClientSizes, o \in ClientOffsets : Read(s, o)
  \/ SubmitLoopRetrieve
  \/ \E ret \in {1, -EINVAL} : IoSubmit(ret)
  \/ \E id \in kernel : \E res \in KernelResults(cbdata[id].io_size) : KernelComplete(id, res)
  \/ Poll

SpecAIO == InitAIO /\ [][NextAIO]_vars

(***************************************************************************)
(* The backpressure scenario: BPOps single-unit aligned writes against an  *)
(* engine of fewer slots; io_submit accepts every operation, the kernel    *)
(* completes every operation in full, the caller keeps polling.            *)
(***************************************************************************)
\* K of the scenario: more writes than any engine of InitAIO has slots
BPOps == MaxCap + 1

\* the scenario's client: one more single-unit aligned write
WriteUnit ==
  /\ nops < BPOps
  /\ SubmitBegin("write", PAGE_SIZE, 0, "client")
  /\ UNCHANGED <<snbVars, writerVars>>

KernelCompleteFull ==
  \E id \in kernel : KernelComplete(id, cbdata[id].io_size)

NextBP ==
  \/ WriteUnit
  \/ SubmitLoopRetrieve
  \/ IoSubmit(1)
  \/ KernelCompleteFull
  \/ Poll

SpecBP ==
  /\ InitAIO
  /\ [][NextBP]_vars
  /\ WF_vars(WriteUnit)
  /\ WF_vars(SubmitLoopRetrieve)
  /\ WF_vars(IoSubmit(1))
  /\ WF_vars(KernelCompleteFull)
  /\ WF_vars(Poll)

(***************************************************************************)
(* SNBHandler                                                              *)
(***************************************************************************)

\* block sizes a handler is constructed with: one page, 1 MiB, and the 1 GiB
\* SNBWriter configures (const size_t m_io_size = 1024*1048576)
BlockSizes == {PAGE_SIZE, 1048576, 1024 * 1048576}

\* payload sizes the caller copies into the buffer before a store
PayloadSizes(block_size) == {PAGE_SIZE, block_size, block_size + 1}

\* the offset without the reserved region at the head of the device
StoreOffsetFromZero(sent_ops, block_size) ==
  sent_ops * block_size

\* blocks packed one page apart, whatever the block size
StoreOffsetPacked(sent_ops, block_size) ==
  MIN_OFFSET + (sent_ops * PAGE_SIZE)

\* file_offset = MIN_OFFSET + (m_sent_ops * m_block_size)
StoreOffset(sent_ops, block_size) ==
  MIN_OFFSET + (sent_ops * block_size)

\* SNBHandler::store up to its call of m_asyncio->write: the offset is computed
\* and a write of m_block_size bytes enters _submit_operation. The payload size
\* is not an argument of store.
StoreBegin(size) ==
  /\ storeCalls < MaxStores
  /\ storeCalls' = storeCalls + 1
  /\ payload' = size
  /\ file_offset' = StoreOffset(m_sent_ops, m_block_size)
  /\ SubmitBegin("write", m_block_size, file_offset', "store")
  /\ UNCHANGED <<m_block_size, m_sent_ops, m_completed_ops, storeLog>>

\* a store that returns after its first retrieveCompletions()
StoreMustDrainNever(inflight) ==
  FALSE

\* while(m_asyncio->getIncompleOps()!= 0)
StoreMustDrain(inflight) ==
  inflight # 0

\* SNBHandler::store after m_sent_ops++: retrieveCompletions() once, then again
\* while getIncompleOps() != 0; store returns when nothing is in flight
StoreDrain ==
  /\ pc = "drain"
  /\ RetrieveCompletions
  /\ pc' = IF Retrieved.thrown = "none" /\ StoreMustDrain(Retrieved.inflight)
           THEN "drain" ELSE "idle"
  /\ cur' = IF pc' = "drain" THEN cur ELSE NoOp
  /\ storeLog' = IF Retrieved.thrown = "none" /\ ~StoreMustDrain(Retrieved.inflight)
                 THEN Append(storeLog, file_offset) ELSE storeLog
  /\ UNCHANGED <<max_concurrent_ops, kernel, accepted, nops, lastSubmit>>
  /\ UNCHANGED <<m_block_size, m_sent_ops, file_offset, payload, storeCalls>>
  /\ UNCHANGED <<corrVars, pureVars, writerVars>>

\* SNBHandler::SNBHandler(path, block_size, isRandom) and SNBHandler::init()
InitSNB ==
  /\ InitEngine(SNB_MAX_CONCURRENT_OPS)
  /\ m_block_size \in BlockSizes
  /\ m_sent_ops = 0
  /\ m_completed_ops = 0
  /\ file_offset = 0
  /\ payload = 0
  /\ storeCalls = 0
  /\ storeLog = << >>
  /\ NoCorrelator

NextSNB ==
  \/ \E size \in PayloadSizes(m_block_size) : StoreBegin(size) /\ UNCHANGED writerVars
  \/ SubmitLoopRetrieve
  \/ \E ret \in {1, -EINVAL} : IoSubmit(ret)
  \/ \E id \in kernel : \E res \in KernelResults(cbdata[id].io_size) : KernelComplete(id, res)
  \/ StoreDrain

SpecSNB == InitSNB /\ [][NextSNB]_vars

\* SNBHandler::store with the thread that runs it scheduled: the loops of
\* _submit_operation and store keep turning, io_submit accepts what it is given
\* and the kernel finishes what it holds
SpecSNBLive ==
  /\ InitSNB
  /\ [][NextSNB]_vars
  /\ WF_vars(SubmitLoopRetrieve)
  /\ WF_vars(IoSubmit(1))
  /\ WF_vars(KernelCompleteFull)
  /\ WF_vars(StoreDrain)

(***************************************************************************)
(* SNBWriter::do_work                                                      *)
(***************************************************************************)

\* frag_ptr->get_size() of the fragments of a popped record
FragmentSizes == {PAGE_SIZE, 1048576}

\* triggerRecordInputQueue_->pop(trigRecPtr, queueTimeout_) returned a record of
\* k fragments (a pop that times out leaves the loop where it was). The store of
\* the record header is commented out: the fragment loop comes next.
WriterPop(k) ==
  /\ wpc = "pop"
  /\ nrecs < MaxRecords
  /\ nrecs' = nrecs + 1
  /\ recK' = k
  /\ recLeft' = k
  /\ storesAtPop' = storeCalls
  /\ sentAtPop' = m_sent_ops
  /\ wpc' = "frags"
  /\ UNCHANGED membuffer
  /\ UNCHANGED <<aioVars, snbVars, corrVars, pureVars>>

\* a writer that goes on with the next fragment whatever store raised
WriterAfterStoreSwallowing(exc) ==
  "frags"

\* do_work has no try block around store: an exception of store leaves the
\* loop and the thread function
WriterAfterStore(exc) ==
  IF exc = "none" THEN "frags" ELSE "dead"

\* one turn of the fragment loop up to the call of store:
\*   memcpy(m_membuffer, data_block, data_block_size); m_snb_data_store_1->store(..)
WriterStoreFragment(size) ==
  /\ wpc = "frags"
  /\ recLeft > 0
  /\ membuffer' = <<nrecs, recK - recLeft + 1>>
  /\ recLeft' = recLeft - 1
  /\ StoreBegin(size)
  /\ wpc' = "in_store"
  /\ UNCHANGED <<nrecs, recK, storesAtPop, sentAtPop>>

\* store is over: it returned (the fragment loop goes on) or raised
WriterStoreReturned ==
  /\ wpc = "in_store"
  /\ pc = "idle"
  /\ wpc' = WriterAfterStore(thrown)
  /\ UNCHANGED <<nrecs, recK, recLeft, storesAtPop, sentAtPop, membuffer>>
  /\ UNCHANGED <<aioVars, snbVars, corrVars, pureVars>>

\* the fragment loop is over: progress update, set_latest_trigger_number, and
\* the next turn of the while loop
WriterRecordDone ==
  /\ wpc = "frags"
  /\ recLeft = 0
  /\ wpc' = "pop"
  /\ UNCHANGED <<nrecs, recK, recLeft, storesAtPop, sentAtPop, membuffer>>
  /\ UNCHANGED <<aioVars, snbVars, corrVars, pureVars>>

\* do_conf constructs the handler and do_start starts the thread
InitWriter == InitSNB

NextWriter ==
  \/ \E k \in 0 .. MaxRecordFragments : WriterPop(k)
  \/ \E size \in FragmentSizes : WriterStoreFragment(size)
  \/ WriterStoreReturned
  \/ WriterRecordDone
  \/ SubmitLoopRetrieve
  \/ \E ret \in {1, -EINVAL} : IoSubmit(ret)
  \/ \E id \in kernel : \E res \in KernelResults(cbdata[id].io_size) : KernelComplete(id, res)
  \/ StoreDrain

SpecWriter == InitWriter /\ [][NextWriter]_vars

(***************************************************************************)
(* FragmentReceiver::do_work                                               *)
(***************************************************************************)

\* dataformats::timestamp_t is an unsigned 64-bit integer: the subtraction in the
\* staleness test wraps around. The model keeps the wrap-around at a width whose
\* values TLC's integers hold.
TimestampModulus == 2 ^ 16

\* a map with one key removed / one key set
MapErase(m, k) == [x \in (DOMAIN m) \ {k} |-> m[x]]
MapPut(m, k, v) == [x \in (DOMAIN m) \cup {k} |-> IF x = k THEN v ELSE m[x]]

\* what the turn before reported (records pushed, warnings, error reports) is
\* behind the work loop once the next turn makes its first step
TurnReportsReset ==
  /\ emittedNow' = << >>
  /\ evictedNow' = << >>
  /\ discardedNow' = << >>
  /\ passUB' = "none"

\* the trigger timestamps and component counts a popped decision carries
Timestamps == {0, MaxTime}
ComponentCounts == 0 .. 2

\* a clock that never goes back
TimeAfterDecisionMonotonic(now, ts) ==
  IF ts > now THEN ts ELSE now

\* current_time = temp_dec.trigger_timestamp
TimeAfterDecision(now, ts) ==
  ts

\* decision loop, one pop that returned a decision:
\*   current_time = temp_dec.trigger_timestamp; trigger_decisions_[temp_id] = temp_dec
IngestDecision(id, ts, ncomp) ==
  /\ cpc = "decisions"
  /\ cycles < MaxCycles
  /\ ndecs < MaxDecisions
  /\ current_time' = TimeAfterDecision(current_time, ts)
  /\ trigger_decisions' = MapPut(trigger_decisions, id, [ts |-> ts, ncomp |-> ncomp])
  /\ ndecs' = ndecs + 1
  /\ evicted' = evicted \ {id}
  /\ TurnReportsReset
  /\ UNCHANGED <<fragments, max_time_difference, cpc, cycles, nfrags, nIngested>>
  /\ UNCHANGED <<aioVars, snbVars, pureVars, writerVars>>

\* decision loop: its remaining pops time out and the fragment loop starts
DecisionLoopEnd ==
  /\ cpc = "decisions"
  /\ cycles < MaxCycles
  /\ cpc' = "fragments"
  /\ TurnReportsReset
  /\ UNCHANGED <<trigger_decisions, fragments, current_time, max_time_difference,
                 cycles, ndecs, nfrags, nIngested, evicted>>
  /\ UNCHANGED <<aioVars, snbVars, pureVars, writerVars>>

\* fragment loop, one pop that returned a fragment:
\*   fragments_[temp_id].push_back(temp_fragment)
IngestFragment(id) ==
  /\ cpc = "fragments"
  /\ nfrags < MaxFragments
  /\ fragments' = MapPut(fragments, id,
                    (IF id \in DOMAIN fragments THEN fragments[id] ELSE << >>)
                      \o <<[fid |-> <<id, nIngested[id] + 1>>, freed |-> FALSE]>>)
  /\ nfrags' = nfrags + 1
  /\ nIngested' = [nIngested EXCEPT ![id] = @ + 1]
  /\ UNCHANGED <<trigger_decisions, current_time, max_time_difference, cpc, cycles,
                 ndecs, emittedNow, evictedNow, discardedNow, evicted, passUB>>
  /\ UNCHANGED <<aioVars, snbVars, pureVars, writerVars>>

\* fragment loop: its remaining pops time out and the completion loop starts
FragmentLoopEnd ==
  /\ cpc = "fragments"
  /\ cpc' = "complete"
  /\ UNCHANGED <<trigger_decisions, fragments, current_time, max_time_difference,
                 cycles, ndecs, nfrags, nIngested, emittedNow,
                 evictedNow, discardedNow, evicted, passUB>>
  /\ UNCHANGED <<aioVars, snbVars, pureVars, writerVars>>

\* the completion test of one decision:
\*   frag_it = fragments_.find(it->first); if (frag_it == end) continue;
\*   if (frag_it->second.size() == it->second.components.size())
IsComplete(decs, frags, id) ==
  /\ id \in DOMAIN frags
  /\ Len(frags[id]) = decs[id].ncomp

\* the decisions the completion loop builds a record for, in map order
RECURSIVE CompleteIds(_, _, _)
CompleteIds(decs, frags, keys) ==
  IF keys = << >> THEN << >>
  ELSE (IF IsComplete(decs, frags, Head(keys)) THEN <<Head(keys)>> ELSE << >>)
         \o CompleteIds(decs, frags, Tail(keys))

\* BuildTriggerRecord(id): its body holds comments only, so the maps keep the
\* decision and the fragments of id
BuildTriggerRecord(decs, frags, id) ==
  [decs |-> decs, frags |-> frags]

\* BuildTriggerRecord has no return statement, so the TriggerRecord* the
\* completion loop pushes is indeterminate: what it points to may list the
\* fragments stored for the id (fs) or anything else, kept here as no fragment
TriggerRecordOutcomes(fs) ==
  {[k \in 1 .. Len(fs) |-> fs[k].fid], << >>}

\* the map left by the completion loop after BuildTriggerRecord ran for each id of ids
RECURSIVE AfterBuilds(_, _, _)
AfterBuilds(decs, frags, ids) ==
  IF ids = << >> THEN [decs |-> decs, frags |-> frags]
  ELSE LET b == BuildTriggerRecord(decs, frags, Head(ids))
       IN AfterBuilds(b.decs, b.frags, Tail(ids))

\* the completion loop: every complete decision gets a record, which is pushed to
\* the sink; a push that times out is reported as a warning and the loop goes on
CompletionCheck ==
  /\ cpc = "complete"
  /\ LET ids == CompleteIds(trigger_decisions, fragments,
                            SortedKeys(DOMAIN trigger_decisions))
         after == AfterBuilds(trigger_decisions, fragments, ids)
     IN /\ \E timedOut \in SUBSET (1 .. Len(ids)) :
           \E recs \in [1 .. Len(ids) -> UNION {TriggerRecordOutcomes(fragments[id]) :
                                                   id \in DOMAIN fragments}] :
             /\ \A k \in 1 .. Len(ids) : recs[k] \in TriggerRecordOutcomes(fragments[ids[k]])
             /\ emittedNow' = [k \in 1 .. Len(ids) |->
                                 [id |-> ids[k], delivered |-> k \notin timedOut,
                                  fragments |-> recs[k]]]
        /\ trigger_decisions' = after.decs
        /\ fragments' = after.frags
  /\ cpc' = "obsolete"
  /\ UNCHANGED <<current_time, max_time_difference, cycles, ndecs, nfrags,
                 nIngested, evictedNow, discardedNow, evicted, passUB>>
  /\ UNCHANGED <<aioVars, snbVars, pureVars, writerVars>>

\* the staleness test that compares signed values
IsObsoleteSigned(now, ts, maxdiff) ==
  now - ts > maxdiff

\* if (current_time - it->second.trigger_timestamp > max_time_difference_)
IsObsolete(now, ts, maxdiff) ==
  ((now - ts) % TimestampModulus) > maxdiff

\* for (f : frag_it->second) { ers::error(RemovingFragment(..)); delete f; }
\* the vector keeps the deleted pointers
DeleteFragments(fs) ==
  [k \in 1 .. Len(fs) |-> [fs[k] EXCEPT !.freed = TRUE]]

\* an erase that leaves the map as it was
EraseDecisionNot(decs, id) ==
  decs

\* it = trigger_decisions_.erase(it): the map without the decision
EraseDecision(decs, id) ==
  MapErase(decs, id)

\* the body of the staleness loop for a timed-out decision: one warning, one
\* error report and one delete per fragment held for the id, then the erase
EvictEntry(st, id) ==
  [st EXCEPT !.decs = EraseDecision(@, id),
             !.frags = IF id \in DOMAIN @ THEN MapPut(@, id, DeleteFragments(@[id])) ELSE @,
             !.warned = Append(@, id),
             !.discarded = @ \o (IF id \in DOMAIN st.frags
                                 THEN [k \in 1 .. Len(st.frags[id]) |-> st.frags[id][k].fid]
                                 ELSE << >>)]

\* the loop body reads and deletes a fragment an earlier pass already deleted
TouchesFreed(st, id) ==
  /\ id \in DOMAIN st.frags
  /\ \E k \in 1 .. Len(st.frags[id]) : st.frags[id][k].freed

\* the keys the iterator still has to visit, with the one at position i erased
RemoveAt(keys, i) ==
  SubSeq(keys, 1, i - 1) \o SubSeq(keys, i + 1, Len(keys))

\* The staleness loop from position i of keys (the decisions of the map in
\* order): the set of states it can end in. After "it = erase(it)" the loop's
\* "++it" steps over the entry that followed the erased one. When the erased
\* entry was the last, erase returns end() and "++it" is undefined: the loop may
\* stop there, go on from any entry left in the map, or never come back.
\* Reading and deleting a fragment that is already deleted is undefined too:
\* the loop may go on or the thread may die.
RECURSIVE ObsoleteLoop(_, _, _)
ObsoleteLoop(st, keys, i) ==
  IF i > Len(keys) THEN {st}
  ELSE IF ~IsObsolete(current_time, st.decs[keys[i]].ts, max_time_difference)
  THEN ObsoleteLoop(st, keys, i + 1)
  ELSE LET freed == TouchesFreed(st, keys[i])
           st1 == IF freed THEN [st EXCEPT !.ub = "freed"] ELSE st
           st2 == EvictEntry(st1, keys[i])
           keys2 == RemoveAt(keys, i)
           st3 == [st2 EXCEPT !.ub = "past_end"]
       IN (IF freed THEN {[st1 EXCEPT !.crash = TRUE]} ELSE {})
          \cup (IF i > Len(keys2)
                THEN {st3, [st3 EXCEPT !.crash = TRUE]}
                     \cup UNION {ObsoleteLoop(st3, keys2, j) : j \in 1 .. Len(keys2)}
                ELSE ObsoleteLoop(st2, keys2, i + 1))

\* the set of the elements of a sequence
Range(q) == {q[k] : k \in 1 .. Len(q)}

\* the staleness loop of one turn of the work loop; the next turn follows, with
\* the records of this turn's completion loop handed to the sink
ObsoletePass ==
  /\ cpc = "obsolete"
  /\ \E out \in ObsoleteLoop([decs |-> trigger_decisions, frags |-> fragments,
                              warned |-> << >>, discarded |-> << >>,
                              ub |-> "none", crash |-> FALSE],
                             SortedKeys(DOMAIN trigger_decisions), 1) :
       /\ trigger_decisions' = out.decs
       /\ fragments' = out.frags
       /\ evictedNow' = out.warned
       /\ discardedNow' = out.discarded
       /\ evicted' = evicted \cup Range(out.warned)
       /\ passUB' = out.ub
       /\ cpc' = IF out.crash THEN "crashed" ELSE "decisions"
  /\ cycles' = cycles + 1
  /\ emittedNow' = << >>
  /\ UNCHANGED <<current_time, max_time_difference, ndecs, nfrags, nIngested>>
  /\ UNCHANGED <<aioVars, snbVars, pureVars, writerVars>>

\* FragmentReceiver as configured: no decision and no fragment received yet
InitCorr ==
  /\ InitEngine(SNB_MAX_CONCURRENT_OPS)
  /\ NoHandler
  /\ \E threshold \in {0, MaxTime - 1} : EmptyCorrelator(threshold)
  /\ NoPure
  /\ NoWriter

NextCorr ==
  \/ \E id \in TriggerIds, ts \in Timestamps, ncomp \in ComponentCounts :
        IngestDecision(id, ts, ncomp)
  \/ DecisionLoopEnd
  \/ \E id \in TriggerIds : IngestFragment(id)
  \/ FragmentLoopEnd
  \/ CompletionCheck
  \/ ObsoletePass

SpecCorr == InitCorr /\ [][NextCorr]_vars

(***************************************************************************)
(* The work loop fed with decisions of one component each whose trigger    *)
(* timestamps never go back, its thread scheduled: while                   *)
(* (running_flag.load()) keeps turning.                                    *)
(***************************************************************************)
\* the timestamps the next decision may carry: the latest one or the one after
AdvancingTimestamps == {current_time, Min(current_time + 1, MaxTime)}

NextCorrAdvancing ==
  \/ \E id \in TriggerIds, ts \in AdvancingTimestamps : IngestDecision(id, ts, 1)
  \/ DecisionLoopEnd
  \/ \E id \in TriggerIds : IngestFragment(id)
  \/ FragmentLoopEnd
  \/ CompletionCheck
  \/ ObsoletePass

SpecCorrAdvancing ==
  InitCorr /\ [][NextCorrAdvancing]_vars /\ WF_vars(NextCorrAdvancing)

(***************************************************************************)
(* The pure functions, applied to arguments drawn from bounded sets        *)
(***************************************************************************)

\* the TriggerIds operator< is applied to
OrderIds == [run : 0 .. MaxIdField, trig : 0 .. MaxIdField]

\* the io_size values _getOperations is applied to: whole pages
OpSizes == {k * PAGE_SIZE : k \in 1 .. MaxPages}

\* a < a, a < b, b < a, b < c and a < c, each computed by TriggerId::operator<;
\* one triple is compared in a behaviour
Compare(a, b, c) ==
  /\ ordIds = << >>
  /\ ordIds' = <<a, b, c>>
  /\ ordCmp' = [aa |-> TriggerIdLess(a, a), ab |-> TriggerIdLess(a, b),
                ba |-> TriggerIdLess(b, a), bc |-> TriggerIdLess(b, c),
                ac |-> TriggerIdLess(a, c)]
  /\ UNCHANGED <<opSize, opUnits>>
  /\ UNCHANGED <<aioVars, snbVars, corrVars, writerVars>>

\* _getOperations(io_size); one size is accounted in a behaviour
Account(io_size) ==
  /\ opSize = 0
  /\ opSize' = io_size
  /\ opUnits' = GetOperations(io_size)
  /\ UNCHANGED <<ordIds, ordCmp>>
  /\ UNCHANGED <<aioVars, snbVars, corrVars, writerVars>>

InitPure ==
  /\ InitEngine(SNB_MAX_CONCURRENT_OPS)
  /\ NoHandler
  /\ NoCorrelator

NextPure ==
  \/ \E a \in OrderIds, b \in OrderIds, c \in OrderIds : Compare(a, b, c)
  \/ \E io_size \in OpSizes : Account(io_size)

SpecPure == InitPure /\ [][NextPure]_vars

(***************************************************************************)
(* Properties of the engine                                                *)
(***************************************************************************)

\* C1: in every reachable state of the engine the capacity units in flight
\* (_inflight_ops, what getIncompleOps returns) do not exceed max_concurrent_ops.
C1_InflightWithinCapacity ==
  inflight_ops <= max_concurrent_ops

\* C1 witness: a submission is blocked behind operations that fill the engine,
\* after completions have already been retrieved.
C1_Witness ==
  /\ pc = "submit"
  /\ SubmitMustWait(inflight_ops, cur.io_size, max_concurrent_ops)
  /\ inflight_ops = max_concurrent_ops - 1
  /\ inflight_ops >= 2
  /\ \E i \in OpIds : fired[i] = 1

\* C2 (as claimed): BPOps single-unit writes against an engine of C < BPOps
\* slots all return, and every callback ends up invoked exactly once.
C2_BackpressureNoLoss ==
  <>[](/\ nops = BPOps
       /\ pc = "idle"
       /\ \A i \in 0 .. BPOps - 1 : fired[i] = 1)

\* C8 (as claimed): io_submit is never called for an operation whose offset or
\* size is not a multiple of the page size.
C8_MisalignedNeverReachesKernel ==
  lastSubmit.n > 0 =>
    /\ lastSubmit.offset % PAGE_SIZE = 0
    /\ lastSubmit.io_size % PAGE_SIZE = 0

\* C10: when the batch of the last retrieveCompletions call holds an event whose
\* result differs from the io_size requested, that call raised (it did not
\* return normally).
C10_MismatchIsFatal ==
  (\E i \in 1 .. Len(lastBatch) : lastBatch[i].res # lastBatch[i].io_size)
    => thrown = "retrieve"

\* C10 witness: a retrieveCompletions call raised on the second event of its
\* batch, after running the callback of the first.
C10_Witness ==
  /\ thrown = "retrieve"
  /\ Len(lastBatch) >= 2
  /\ lastBatch[1].res = lastBatch[1].io_size
  /\ fired[lastBatch[1].id] = 1
  /\ lastBatch[2].res # lastBatch[2].io_size

(***************************************************************************)
(* Properties of the block writer                                          *)
(***************************************************************************)

\* C3: the n-th (0-indexed) store call that returns normally wrote at offset
\* MIN_OFFSET + n * m_block_size; so the offsets increase strictly in call order.
C3_OffsetOfNthStore ==
  \A n \in 1 .. Len(storeLog) : storeLog[n] = MIN_OFFSET + (n - 1) * m_block_size

\* C3 witness: three store calls have returned, one of them after an earlier
\* store failed in io_submit.
C3_Witness ==
  /\ Len(storeLog) = 3
  /\ storeCalls = 4
  /\ m_block_size = 1048576

\* C9 (as claimed): from the moment a store begins with a payload larger than
\* the block size, no step calls io_submit and no step advances the cursor
\* (m_sent_ops).
C9_OversizedStoreRejected ==
  [][payload > m_block_size =>
       (lastSubmit' = lastSubmit /\ m_sent_ops' = m_sent_ops)]_vars

(***************************************************************************)
(* Properties of the correlator                                            *)
(***************************************************************************)

\* a step of the work loop that is the completion loop of one turn
CompletionStep == cpc = "complete" /\ cpc' = "obsolete"

\* a step of the work loop that is the staleness loop of one turn, returning
StalenessStep == cpc = "obsolete" /\ cpc' = "decisions"

\* the ids the completion loop of this step built a record for
EmittedIds == {emittedNow'[k].id : k \in 1 .. Len(emittedNow')}

\* C4 (as claimed): a completion check builds a record for X exactly when X's
\* decision is pending (not evicted) and the number of fragments ingested for X
\* equals the component count of that decision.
C4_EmittedIffComplete ==
  [][CompletionStep =>
       \A id \in TriggerIds :
         id \in EmittedIds <=>
           (/\ id \in DOMAIN trigger_decisions
            /\ nIngested[id] = trigger_decisions[id].ncomp)]_vars

\* C5 (as claimed): the completion check that builds the record for X removes
\* X's decision and X's fragments from the bookkeeping maps.
C5_EmissionConsumesEntry ==
  [][CompletionStep =>
       \A id \in EmittedIds :
         /\ id \notin DOMAIN trigger_decisions'
         /\ id \notin DOMAIN fragments']_vars

\* C6: a completion check never builds a record for an id that the staleness
\* loop evicted and for which no decision has been ingested since.
C6_EvictionMonotonic ==
  [][CompletionStep => \A id \in EmittedIds : id \notin evicted]_vars

\* C6 witness: a completion check has just run and built nothing for an evicted
\* id, although a fragment for that id was ingested after the eviction.
C6_Witness ==
  /\ cpc = "obsolete"
  /\ \E id \in evicted :
       /\ id \in DOMAIN fragments
       /\ \E k \in 1 .. Len(fragments[id]) : ~fragments[id][k].freed
       /\ \A k \in 1 .. Len(emittedNow) : emittedNow[k].id # id

\* C7 (as claimed): after a staleness loop that ran with defined behaviour, no
\* pending decision is older than the threshold.
C7_PassRemovesEveryStale ==
  [][(StalenessStep /\ passUB' = "none") =>
       \A id \in DOMAIN trigger_decisions' :
         ~IsObsolete(current_time, trigger_decisions'[id].ts, max_time_difference)]_vars

(***************************************************************************)
(* Further properties of the engine                                        *)
(***************************************************************************)

\* C11 (as claimed): every operation that the last retrieveCompletions call
\* found completed in full has had its callback invoked exactly once and its
\* callback_data destroyed.
C11_EveryFoundCallbackOnce ==
  \A i \in 1 .. Len(lastBatch) :
    lastBatch[i].res = lastBatch[i].io_size =>
      /\ fired[lastBatch[i].id] = 1
      /\ lastBatch[i].id \notin DOMAIN cbdata

(***************************************************************************)
(* Further properties of the block writer                                  *)
(***************************************************************************)

\* C12: at every normal return of store nothing is in flight: _inflight_ops is
\* 0, the kernel holds no operation, no completion waits in the ring, and the
\* callback of the write this store submitted has run once.
C12_StoreReturnsDrained ==
  [][(pc = "drain" /\ pc' = "idle" /\ thrown' = "none") =>
       /\ inflight_ops' = 0
       /\ kernel' = {}
       /\ cq' = << >>
       /\ fired'[cur.id] = 1]_vars

\* C12 witness: two store calls have returned normally, one after the other,
\* and both callbacks have run.
C12_Witness ==
  /\ pc = "idle"
  /\ thrown = "none"
  /\ Len(storeLog) = 2
  /\ m_sent_ops = 2
  /\ m_completed_ops = 2
  /\ inflight_ops = 0

(***************************************************************************)
(* Properties of the pure functions                                        *)
(***************************************************************************)

\* C13: operator< on TriggerIds is irreflexive, asymmetric and transitive, it
\* orders by run number first and by trigger number second, and two ids are
\* unordered (the same map key) exactly when both of their fields are equal.
C13_StrictTotalOrder ==
  ordIds # << >> =>
    LET a == ordIds[1]
        b == ordIds[2]
    IN /\ ~ordCmp.aa
       /\ ordCmp.ab => ~ordCmp.ba
       /\ (ordCmp.ab /\ ordCmp.bc) => ordCmp.ac
       /\ (~ordCmp.ab /\ ~ordCmp.ba) <=> (a.run = b.run /\ a.trig = b.trig)
       /\ a.run < b.run => ordCmp.ab
       /\ (a.run = b.run /\ a.trig < b.trig) => ordCmp.ab

\* C13 witness: a < b is decided by the run number against the trigger numbers,
\* b < c by the trigger number within one run, and a < c follows.
C13_Witness ==
  /\ ordIds # << >>
  /\ ordIds[1].run < ordIds[2].run
  /\ ordIds[1].trig > ordIds[2].trig
  /\ ordIds[2].run = ordIds[3].run
  /\ ordIds[2].trig < ordIds[3].trig
  /\ ordCmp.ab /\ ordCmp.bc /\ ordCmp.ac
  /\ ~ordCmp.ba

(***************************************************************************)
(* Further properties of the correlator                                    *)
(***************************************************************************)

\* C14 (as claimed): an id that becomes pending by the ingest of a decision has
\* no fragment collected: fragments ingested for it earlier do not count.
C14_DecisionStartsEmpty ==
  [][\A id \in TriggerIds :
       (id \notin DOMAIN trigger_decisions /\ id \in DOMAIN trigger_decisions') =>
         (id \notin DOMAIN fragments' \/ fragments'[id] = << >>)]_vars

\* C15 (as claimed): the ingest of a fragment whose id has no pending decision
\* leaves the set of ids with stored fragments as it was.
C15_MissCreatesNoEntry ==
  [][\A id \in TriggerIds :
       (nIngested'[id] # nIngested[id] /\ id \notin DOMAIN trigger_decisions) =>
         DOMAIN fragments' = DOMAIN fragments]_vars

\* C16 (as claimed): for every pending id the number of fragments collected is
\* at most the component count of its decision.
C16_CollectedAtMostExpected ==
  \A id \in DOMAIN trigger_decisions :
    id \in DOMAIN fragments =>
      Len(fragments[id]) <= trigger_decisions[id].ncomp

\* C17 (as claimed): the fragment list of every record a completion check
\* pushes is the sequence of the fragments ingested for its id, in ingest order.
C17_RecordKeepsArrivalOrder ==
  [][CompletionStep =>
       \A k \in 1 .. Len(emittedNow') :
         emittedNow'[k].fragments =
           [j \in 1 .. nIngested[emittedNow'[k].id] |-> <<emittedNow'[k].id, j>>]]_vars

(***************************************************************************)
(* The offsets of the block writer                                         *)
(***************************************************************************)

\* C18 (as claimed): every offset store hands to io_submit is a multiple of the
\* block size.
C18_OffsetMultipleOfBlock ==
  lastSubmit.n > 0 => lastSubmit.offset % m_block_size = 0

\* C18 (amended): every offset store hands to io_submit lies a whole number of
\* blocks above MIN_OFFSET, and is a multiple of the page size.
C18_OffsetBlocksAboveMinOffset ==
  lastSubmit.n > 0 =>
    /\ lastSubmit.offset >= MIN_OFFSET
    /\ (lastSubmit.offset - MIN_OFFSET) % m_block_size = 0
    /\ lastSubmit.offset % PAGE_SIZE = 0

\* C18 witness: the second write of a handler with 1 MiB blocks was submitted
\* one block above MIN_OFFSET.
C18_Witness ==
  /\ m_block_size = 1048576
  /\ lastSubmit.n = 2
  /\ lastSubmit.ret = 1
  /\ lastSubmit.offset = MIN_OFFSET + 1048576

\* C19 (as claimed): whenever the thread is inside write/read (in
\* _submit_operation), the call eventually returns or raises.
C19_SubmitReturns ==
  (pc = "submit") ~> (pc # "submit")

\* C20 (as claimed): an io_size at or below the preferred block size costs one
\* capacity unit, and every io_size above it costs more than one.
C20_LargerCostsMoreThanOne ==
  opSize > 0 =>
    /\ opSize <= preferred_block_size => opUnits = 1
    /\ opSize > preferred_block_size => opUnits > 1

(***************************************************************************)
(* Properties of the writer thread                                         *)
(***************************************************************************)

\* C21: once a store has raised (io_submit failed or a completion did not match
\* its size) the writer thread makes no further io_submit call, begins no
\* further store and pops no further TriggerRecord.
C21_FaultHaltsWriter ==
  [][thrown # "none" =>
       /\ lastSubmit' = lastSubmit
       /\ storeCalls' = storeCalls
       /\ nrecs' = nrecs
       /\ wpc' \in {"in_store", "dead"}]_vars

\* C21 witness: the thread has left its loop on a completion mismatch, with a
\* fragment of the record still unwritten and the input queue not yet drained.
C21_Witness ==
  /\ wpc = "dead"
  /\ thrown = "retrieve"
  /\ recLeft > 0
  /\ nrecs < MaxRecords

\* C22 (as claimed): when the writer thread is done with a record of k
\* fragments, it has called store k + 1 times for it (header, then fragments)
\* and the write cursor has advanced by k + 1 blocks.
C22_HeaderAndFragmentsStored ==
  [][(wpc = "frags" /\ wpc' = "pop") =>
       /\ storeCalls - storesAtPop = recK + 1
       /\ m_sent_ops - sentAtPop = recK + 1]_vars

\* C23: m_membuffer is written (the memcpy of the next payload) only while no
\* operation is in flight: nothing counted in _inflight_ops, nothing held by
\* the kernel, no completion waiting for its callback.
C23_BufferStableWhileInFlight ==
  [][membuffer' # membuffer =>
       /\ inflight_ops = 0
       /\ kernel = {}
       /\ cq = << >>]_vars

\* C23 witness: the payload of the second fragment of a record is in the buffer
\* and its write is with the kernel, after the first fragment's store returned.
C23_Witness ==
  /\ membuffer = <<1, 2>>
  /\ wpc = "in_store"
  /\ kernel # {}
  /\ inflight_ops > 0
  /\ Len(storeLog) = 1

(***************************************************************************)
(* Properties of the correlator: pushes, reports and the staleness test    *)
(***************************************************************************)

\* C24 (as claimed): a push that timed out is retried until it succeeds, so a
\* completion loop ends with every record it built delivered to the sink.
C24_PushRetriedUntilDelivered ==
  [][CompletionStep =>
       \A k \in 1 .. Len(emittedNow') : emittedNow'[k].delivered]_vars

\* the decisions a step of the work loop erased
ErasedIds == (DOMAIN trigger_decisions) \ (DOMAIN trigger_decisions')

\* how many times x occurs in the sequence q
Occurrences(q, x) == Cardinality({k \in 1 .. Len(q) : q[k] = x})

\* C25 (as claimed): a staleness loop returns to the work loop, having reported
\* one warning per decision it erased and one error per fragment collected for
\* each of them.
C25_EvictionReportsAndContinues ==
  [][cpc = "obsolete" =>
       /\ cpc' = "decisions"
       /\ \A id \in ErasedIds : Occurrences(evictedNow', id) = 1
       /\ \A id \in TriggerIds \ ErasedIds : Occurrences(evictedNow', id) = 0
       /\ \A id \in ErasedIds :
            \A j \in 1 .. nIngested[id] : Occurrences(discardedNow', <<id, j>>) = 1
       /\ Len(discardedNow') = Cardinality({<<id, j>> \in TriggerIds \X (1 .. MaxFragments) :
                                              id \in ErasedIds /\ j <= nIngested[id]})]_vars

\* C26 (as claimed): while the thread is at the loop test of _submit_operation
\* with in-flight units + units of the operation <= max_concurrent_ops, the
\* test does not ask for a drain.
C26_NoDrainWhileRoom ==
  (/\ pc = "submit"
   /\ inflight_ops + GetOperations(cur.io_size) <= max_concurrent_ops)
    => ~SubmitMustWait(inflight_ops, cur.io_size, max_concurrent_ops)

C28_OnlyOlderThanThresholdErased ==
  [][cpc = "obsolete" =>
       \A id \in ErasedIds :
         current_time - trigger_decisions[id].ts > max_time_difference]_vars

\* C29 (as claimed): a completion check builds a record with no fragment for
\* every pending decision of 0 components for which no fragment was ingested.
C29_ZeroComponentsEmitted ==
  [][CompletionStep =>
       \A id \in DOMAIN trigger_decisions :
         (trigger_decisions[id].ncomp = 0 /\ nIngested[id] = 0) =>
           \E k \in 1 .. Len(emittedNow') :
             /\ emittedNow'[k].id = id
             /\ emittedNow'[k].fragments = << >>]_vars

\* C30: current_time is 0 until the first decision; a step that pops a decision
\* stores that decision and sets current_time to its timestamp, larger or
\* smaller; every other step leaves current_time alone.
C30_TimeIsLastDecisionTimestamp ==
  [][/\ ndecs = 0 => current_time = 0
     /\ ndecs' = ndecs => current_time' = current_time
     /\ ndecs' # ndecs =>
          \E id \in TriggerIds, ncomp \in ComponentCounts :
            trigger_decisions' =
              MapPut(trigger_decisions, id, [ts |-> current_time', ncomp |-> ncomp])]_vars

\* C30 witness: the second decision popped carried a smaller timestamp than the
\* first, which is still pending, and the time went back to it.
C30_Witness ==
  /\ ndecs = 2
  /\ current_time = 0
  /\ \E id \in DOMAIN trigger_decisions : trigger_decisions[id].ts = MaxTime
  /\ nfrags > 0

(***************************************************************************)
(* What an eviction leaves behind                                          *)
(***************************************************************************)

\* C31 (as claimed): after a staleness loop, the fragment map holds no fragment
\* for any id that loop evicted.
C31_EvictionLeavesNoFragment ==
  [][StalenessStep =>
       \A id \in Range(evictedNow') :
         id \notin DOMAIN fragments' \/ fragments'[id] = << >>]_vars

(***************************************************************************)
(* A submission the kernel refuses                                         *)
(***************************************************************************)

\* a step that is an io_submit call returning something other than 1
SubmitFailedStep ==
  lastSubmit'.n = lastSubmit.n + 1 /\ lastSubmit'.ret # 1

\* C32: an io_submit call that fails throws out of write/read; the step changes
\* neither _inflight_ops nor the callback counts nor m_sent_ops, and the kernel
\* does not hold the operation. An operation enters the kernel only by an
\* io_submit that returned 1, a completion event only from the kernel, and a
\* callback runs only for an operation whose event is in the ring: the callback
\* of a refused operation never runs.
C32_FailedSubmitChangesNothing ==
  [][/\ SubmitFailedStep =>
          /\ thrown' = "submit"
          /\ pc' = "idle"
          /\ inflight_ops' = inflight_ops
          /\ fired' = fired
          /\ m_sent_ops' = m_sent_ops
          /\ m_completed_ops' = m_completed_ops
          /\ kernel' = kernel
          /\ cq' = cq
          /\ cur.id \notin kernel
     /\ \A i \in kernel' \ kernel :
          /\ i = cur.id
          /\ lastSubmit'.n = lastSubmit.n + 1
          /\ lastSubmit'.ret = 1
     /\ \A k \in 1 .. Len(cq') :
          (\A j \in 1 .. Len(cq) : cq[j].id # cq'[k].id) => cq'[k].id \in kernel
     /\ \A i \in OpIds :
          fired'[i] # fired[i] => \E k \in 1 .. Len(cq) : cq[k].id = i]_vars

\* C32 witness: the second store call failed in io_submit after the first had
\* returned: the cursor stays at 1, nothing is in flight, and the callback of
\* the refused write has not run.
C32_Witness ==
  /\ thrown = "submit"
  /\ lastSubmit.n = 2
  /\ lastSubmit.ret # 1
  /\ storeCalls = 2
  /\ m_sent_ops = 1
  /\ m_completed_ops = 1
  /\ inflight_ops = 0
  /\ fired[1] = 0

(***************************************************************************)
(* What becomes of fragments and decisions in the long run                 *)
(***************************************************************************)

\* the k-th fragment ingested for id is in a record the completion loop of this
\* turn delivered, or the last staleness loop reported it discarded
FragmentHandled(id, k) ==
  \/ <<id, k>> \in Range(discardedNow)
  \/ \E j \in 1 .. Len(emittedNow) :
       /\ emittedNow[j].delivered
       /\ <<id, k>> \in Range(emittedNow[j].fragments)


\* the decisions stopped arriving before the latest timestamp, or the thread
\* died in the staleness loop
FeedEnded ==
  \/ cpc = "crashed"
  \/ cycles = MaxCycles /\ current_time # MaxTime

C35_EmittedNotDiscarded ==
  [][cpc = "obsolete" =>
       \A j \in 1 .. Len(emittedNow) :
         emittedNow[j].delivered =>
           Range(emittedNow[j].fragments) \cap Range(discardedNow') = {}]_vars

(***************************************************************************)
(* The account of capacity units                                           *)
(***************************************************************************)

\* the capacity units of the operations of S, by the io_size of their callback_data
RECURSIVE UnitsOf(_, _)
UnitsOf(cb, S) ==
  IF S = {} THEN 0
  ELSE LET i == CHOOSE x \in S : TRUE
       IN GetOperations(cb[i].io_size) + UnitsOf(cb, S \ {i})

\* operations io_submit accepted whose completion retrieveCompletions has not
\* processed (callback run, units released)
Unprocessed(acc, f) ==
  {i \in acc : f[i] = 0}

\* unprocessed operations that neither the kernel nor the completion ring holds:
\* their events were handed to a retrieveCompletions call that threw
AbortedOps(acc, f, ker, q) ==
  {i \in Unprocessed(acc, f) : i \notin ker /\ \A k \in 1 .. Len(q) : q[k].id # i}

\* the first event of batch b whose result is not the io_size requested
FirstMismatch(b) ==
  CHOOSE m \in 1 .. Len(b) :
    /\ b[m].res # b[m].io_size
    /\ \A j \in 1 .. (m - 1) : b[j].res = b[j].io_size

\* C36: a retrieveCompletions call whose batch holds a mismatching event throws;
\* the callback of that event and of every event after it in the batch has not
\* run, their callback_data stay, and _inflight_ops went down by the units of
\* the events before it only. The events are gone from the ring, so these
\* operations stay counted: from then on _inflight_ops is never 0.
C36_AbortLeavesUnitsCounted ==
  [][/\ (/\ lastBatch' # lastBatch
         /\ \E i \in 1 .. Len(lastBatch') : lastBatch'[i].res # lastBatch'[i].io_size) =>
          LET b == lastBatch'
              m == FirstMismatch(b)
          IN /\ thrown' = "retrieve"
             /\ \A i \in m .. Len(b) :
                  /\ fired'[b[i].id] = 0
                  /\ b[i].id \in DOMAIN cbdata'
                  /\ b[i].id \in AbortedOps(accepted', fired', kernel', cq')
             /\ inflight_ops' =
                  inflight_ops - UnitsOf(cbdata, {b[i].id : i \in 1 .. (m - 1)})
     /\ AbortedOps(accepted, fired, kernel, cq)
          \subseteq AbortedOps(accepted', fired', kernel', cq')
     /\ AbortedOps(accepted', fired', kernel', cq') # {} => inflight_ops' > 0]_vars

\* C36 witness: a retrieveCompletions call threw on the first event of a batch
\* of two; the second completed in full and its callback has not run; the kernel
\* and the ring are empty and two units are still counted.
C36_Witness ==
  /\ thrown = "retrieve"
  /\ Len(lastBatch) = 2
  /\ lastBatch[1].res # lastBatch[1].io_size
  /\ lastBatch[2].res = lastBatch[2].io_size
  /\ fired[lastBatch[2].id] = 0
  /\ kernel = {}
  /\ cq = << >>
  /\ inflight_ops = 2

\* C37: _inflight_ops is the sum of the capacity units of the operations
\* io_submit accepted and retrieveCompletions has not processed; no callback has
\* run twice or for an operation that was not accepted; the counter is never
\* negative and is 0 exactly when there is no such operation.
C37_InflightIsSumOfUnprocessed ==
  /\ Unprocessed(accepted, fired) \subseteq DOMAIN cbdata
  /\ inflight_ops = UnitsOf(cbdata, Unprocessed(accepted, fired))
  /\ \A i \in OpIds : fired[i] <= 1 /\ (fired[i] = 1 => i \in accepted)
  /\ inflight_ops >= 0
  /\ inflight_ops = 0 <=> Unprocessed(accepted, fired) = {}

\* C37 witness: one operation has been processed, the callback_data of one that
\* io_submit refused is left behind, and an operation of two units is counted.
C37_Witness ==
  /\ inflight_ops = 2
  /\ \E i \in accepted : fired[i] = 1
  /\ \E i \in DOMAIN cbdata : i \notin accepted
  /\ \E i \in Unprocessed(accepted, fired) : GetOperations(cbdata[i].io_size) = 2
====
